---- MODULE Spec2Model ----
(***************************************************************************)
(* Model of the rox front end: the Scanner of src/src/scanner.rs and the   *)
(* recursive-descent Parser of src/src/parser.rs.                          *)
(*                                                                         *)
(* A character is an atom written as a string: an ASCII character is       *)
(* written as itself, a non-ASCII one by its code point ("U+00E9").  A     *)
(* source text and a lexeme are sequences of characters.  Byte offsets     *)
(* (start, current) count UTF-8 bytes as the code does with len_utf8.      *)
(***************************************************************************)
EXTENDS Integers, Sequences, FiniteSets

VARIABLES
  scanner,      \* the Scanner struct: source, iter, tokens, start, current, line
  scan_pc,      \* position of the caller in scan_tokens: "idle", "loop", "done"
  scan_ret,     \* the value the last scan_tokens call returned
  calls,        \* number of scan_tokens calls made on this Scanner
  parser,       \* the Parser struct: tokens, cur_idx
  stack,        \* call stack of the recursive descent, innermost frame last
  retval,       \* the Expression the callee that returned last handed back
  parse_ret     \* outcome of Parser::parse: status and value

vars == <<scanner, scan_pc, scan_ret, calls, parser, stack, retval, parse_ret>>

scanvars == <<scanner, scan_pc, scan_ret, calls>>
parsevars == <<parser, stack, retval, parse_ret>>

---------------------------------------------------------------------------
(* Bounds of the model *)

\* longest source text handed to Scanner::new
MaxLen == 4
\* number of scan_tokens calls made on one Scanner
MaxCalls == 2
\* longest source text made of punctuation and operators
MaxPunct == 3
\* most characters put before and put after a keyword
MaxAffix == 1
\* longest source text with line comments
MaxComment == 6

---------------------------------------------------------------------------
(* Characters *)

None == "None"
NoErr == "NoErr"

\* char::is_ascii_digit
AsciiDigit == {"0", "1", "2", "3", "4", "5", "6", "7", "8", "9"}

\* char::is_whitespace (White_Space property), the members the model uses
WhiteSpace == {" ", "\t", "\r", "\n", "U+00A0"}

\* UnicodeXID::is_xid_start, the members the model uses ('_' is not one)
XidStart ==
  {"a", "b", "c", "d", "e", "f", "g", "h", "i", "j", "k", "l", "m", "n", "o",
   "p", "q", "r", "s", "t", "u", "v", "w", "x", "y", "z", "U+00E9"}

\* UnicodeXID::is_xid_continue
XidContinue == XidStart \cup AsciiDigit \cup {"_"}

\* every character of the model
Char ==
  {"(", ")", "{", "}", ",", ".", "-", "+", ";", "*", "!", "=", "<", ">", "/",
   "\"", "#", "@", "_"} \cup WhiteSpace \cup AsciiDigit \cup XidStart

\* the predicate |&c| c != '\n' of the line comment loop
NotNewline == Char \ {"\n"}

\* char::len_utf8
len_utf8(c) == IF c \in {"U+00E9", "U+00A0"} THEN 2 ELSE 1

RECURSIVE ByteLen(_)
\* str::len, the number of UTF-8 bytes of a text
ByteLen(text) ==
  IF text = <<>> THEN 0 ELSE len_utf8(Head(text)) + ByteLen(Tail(text))

\* byte offset at which character number i (1-based) of text starts
ByteOffset(text, i) == ByteLen(SubSeq(text, 1, i - 1))

\* &source[..b]: the slice that does not start at a but at the start of text
Slice_from_text_start(text, a, b) ==
  LET off == [i \in 1..Len(text) |-> ByteOffset(text, i)]
      sel == SelectSeq([i \in 1..Len(text) |-> i], LAMBDA i : off[i] < b)
  IN  [k \in 1..Len(sel) |-> text[sel[k]]]

\* &source[a..b]: the characters whose first byte lies in a..b-1
Slice(text, a, b) ==
  LET off == [i \in 1..Len(text) |-> ByteOffset(text, i)]
      sel == SelectSeq([i \in 1..Len(text) |-> i],
                       LAMBDA i : a <= off[i] /\ off[i] < b)
  IN  [k \in 1..Len(sel) |-> text[sel[k]]]

---------------------------------------------------------------------------
(* Scanner *)

\* struct Token
Token(kind, lexeme, line) == [kind |-> kind, lexeme |-> lexeme, line |-> line]

NoToken == Token(None, <<>>, 0)

\* Scanner::new
Scanner_new(source) ==
  [source |-> source, iter |-> 0, tokens |-> <<>>, start |-> 0, current |-> 0,
   line |-> 1]

\* Peekable::peek on self.iter: the next character, None at the end
Peek(s) == IF s.iter < Len(s.source) THEN s.source[s.iter + 1] ELSE None

\* next returning the next character without consuming it
next_peeks(s) == [s |-> s, ret |-> Peek(s)]

\* Scanner::next
next(s) ==
  LET ret == Peek(s)
  IN  IF ret # None
      THEN [s |-> [s EXCEPT !.iter = @ + 1, !.current = @ + len_utf8(ret)],
            ret |-> ret]
      ELSE [s |-> s, ret |-> None]

\* next_if_eq consuming the character without counting its bytes in current
next_if_eq_forgets_current(s, expected) ==
  IF Peek(s) = expected
  THEN [s |-> [s EXCEPT !.iter = @ + 1], ret |-> TRUE]
  ELSE [s |-> s, ret |-> FALSE]

\* Scanner::next_if_eq
next_if_eq(s, expected) ==
  IF Peek(s) = expected
  THEN [s |-> [s EXCEPT !.iter = @ + 1, !.current = @ + len_utf8(expected)],
        ret |-> TRUE]
  ELSE [s |-> s, ret |-> FALSE]

RECURSIVE next_while(_, _)
\* Scanner::next_while, the predicate p given as the set of characters it accepts
next_while(s, p) ==
  LET c == Peek(s)
  IN  IF c # None /\ c \in p
      THEN next_while([s EXCEPT !.iter = @ + 1, !.current = @ + len_utf8(c)], p)
      ELSE s

\* decimal_point without the look at the character after the '.'
decimal_point_any_dot(s) ==
  /\ s.iter + 1 <= Len(s.source)
  /\ s.source[s.iter + 1] = "."

\* Scanner::decimal_point
decimal_point(s) ==
  /\ s.iter + 1 <= Len(s.source)
  /\ s.source[s.iter + 1] = "."
  /\ s.iter + 2 <= Len(s.source)
  /\ s.source[s.iter + 2] \in AsciiDigit

RECURSIVE string_closed_by_eof(_)
\* string taking the end of input for the closing quote
string_closed_by_eof(s) ==
  LET c == Peek(s)
  IN  IF c = None
      THEN [s |-> s, kind |-> "StringLiteral", err |-> NoErr]
      ELSE LET s1 == [s EXCEPT !.iter = @ + 1, !.current = @ + len_utf8(c)]
           IN  IF c = "\""
               THEN [s |-> s1, kind |-> "StringLiteral", err |-> NoErr]
               ELSE IF c = "\n"
                    THEN string_closed_by_eof([s1 EXCEPT !.line = @ + 1])
                    ELSE string_closed_by_eof(s1)

RECURSIVE string(_)
\* Scanner::string
string(s) ==
  LET c == Peek(s)
  IN  IF c = None
      THEN [s |-> s, kind |-> None, err |-> "Unterminated string"]
      ELSE LET s1 == [s EXCEPT !.iter = @ + 1, !.current = @ + len_utf8(c)]
           IN  IF c = "\""
               THEN [s |-> s1, kind |-> "StringLiteral", err |-> NoErr]
               ELSE IF c = "\n"
                    THEN string([s1 EXCEPT !.line = @ + 1])
                    ELSE string(s1)

\* the keyword table of scan_token
Keyword(ident) ==
  CASE ident = <<"a", "n", "d">> -> "And"
    [] ident = <<"c", "l", "a", "s", "s">> -> "Class"
    [] ident = <<"e", "l", "s", "e">> -> "Else"
    [] ident = <<"f", "a", "l", "s", "e">> -> "False"
    [] ident = <<"f", "o", "r">> -> "For"
    [] ident = <<"f", "u", "n">> -> "Fun"
    [] ident = <<"i", "f">> -> "If"
    [] ident = <<"n", "i", "l">> -> "Nil"
    [] ident = <<"o", "r">> -> "Or"
    [] ident = <<"p", "r", "i", "n", "t">> -> "Print"
    [] ident = <<"r", "e", "t", "u", "r", "n">> -> "Return"
    [] ident = <<"s", "u", "p", "e", "r">> -> "Super"
    [] ident = <<"t", "h", "i", "s">> -> "This"
    [] ident = <<"t", "r", "u", "e">> -> "True"
    [] ident = <<"v", "a", "r">> -> "Var"
    [] ident = <<"w", "h", "i", "l", "e">> -> "While"
    [] OTHER -> "Identifier"

Kind(s, kind) == [s |-> s, kind |-> kind, err |-> NoErr]

\* the operators '!' '=' '<' '>' without the look at the next character
OneOrTwo_no_lookahead(s, two, one) == Kind(s, one)

\* the one-or-two character operators of scan_token: '!' '=' '<' '>'
OneOrTwo(s, two, one) ==
  LET n == next_if_eq(s, "=")
  IN  IF n.ret THEN Kind(n.s, two) ELSE Kind(n.s, one)

\* the '/' arm taking the newline that ends a line comment into the comment
SlashArm_takes_newline(s) ==
  LET n == next_if_eq(s, "/")
  IN  IF n.ret THEN Kind(next(next_while(n.s, NotNewline)).s, "Whitespace")
      ELSE Kind(n.s, "Slash")

\* the '/' arm of scan_token
SlashArm(s) ==
  LET n == next_if_eq(s, "/")
  IN  IF n.ret THEN Kind(next_while(n.s, NotNewline), "Whitespace")
      ELSE Kind(n.s, "Slash")

\* the digit arm of scan_token
NumberArm(s) ==
  LET s1 == next_while(s, AsciiDigit)
  IN  IF decimal_point(s1)
      THEN Kind(next_while(next(s1).s, AsciiDigit), "NumberLiteral")
      ELSE Kind(s1, "NumberLiteral")

\* the identifier arm comparing with the keyword table as it goes: the token
\* ends with the first prefix of the run that is a keyword
IdentifierArm_first_keyword(s) ==
  LET s1 == next_while(s, XidContinue)
      run == Slice(s1.source, s1.start, s1.current)
      hit == {k \in 1..Len(run) : Keyword(SubSeq(run, 1, k)) # "Identifier"}
      k0 == CHOOSE k \in hit : \A j \in hit : k <= j
  IN  IF hit = {} THEN Kind(s1, "Identifier")
      ELSE Kind([s1 EXCEPT !.iter = s.iter + k0 - 1, !.current = s.start + k0],
                Keyword(SubSeq(run, 1, k0)))

\* the identifier arm of scan_token
IdentifierArm(s) ==
  LET s1 == next_while(s, XidContinue)
  IN  Kind(s1, Keyword(Slice(s1.source, s1.start, s1.current)))

\* the match on the consumed character c in scan_token, arms in source order
Classify(s, c) ==
  CASE c = "(" -> Kind(s, "LeftParen")
    [] c = ")" -> Kind(s, "RightParen")
    [] c = "{" -> Kind(s, "LeftBrace")
    [] c = "}" -> Kind(s, "RightBrace")
    [] c = "," -> Kind(s, "Comma")
    [] c = "." -> Kind(s, "Dot")
    [] c = "-" -> Kind(s, "Minus")
    [] c = "+" -> Kind(s, "Plus")
    [] c = ";" -> Kind(s, "Semicolon")
    [] c = "*" -> Kind(s, "Star")
    [] c = "!" -> OneOrTwo(s, "BangEqual", "Bang")
    [] c = "=" -> OneOrTwo(s, "EqualEqual", "Equal")
    [] c = "<" -> OneOrTwo(s, "LessEqual", "Less")
    [] c = ">" -> OneOrTwo(s, "GreaterEqual", "Greater")
    [] c = "/" -> SlashArm(s)
    [] c = "\n" -> Kind([s EXCEPT !.line = @ + 1], "Whitespace")
    [] c = "\"" -> string(s)
    [] OTHER ->
         IF c \in WhiteSpace THEN Kind(s, "Whitespace")
         ELSE IF c \in AsciiDigit THEN NumberArm(s)
         ELSE IF c \in XidStart THEN IdentifierArm(s)
         ELSE [s |-> s, kind |-> None, err |-> "Found unexpected character"]

\* Scanner::scan_token: the scanner after the call, and the token or the error.
\* n is what self.next() returned and r the kind the match arrived at, each
\* bound to its value as by a let
scan_token(s0) ==
  CHOOSE out \in
    {IF r.err # NoErr
     THEN [s |-> r.s, token |-> NoToken, err |-> r.err]
     ELSE [s |-> [r.s EXCEPT !.start = r.s.current],
           token |-> Token(r.kind, Slice(r.s.source, r.s.start, r.s.current),
                           r.s.line),
           err |-> NoErr] :
       r \in {IF n.ret = None THEN Kind(n.s, "Eof") ELSE Classify(n.s, n.ret) :
                n \in {next([s0 EXCEPT !.start = s0.current])}}} : TRUE

\* Result<&Vec<Token>, &'static str>, and "None" while no call has returned
Ok(tokens) == [tag |-> "Ok", tokens |-> tokens, err |-> NoErr]
Err(msg) == [tag |-> "Err", tokens |-> <<>>, err |-> msg]
NoResult == [tag |-> None, tokens |-> <<>>, err |-> NoErr]

\* scan_tokens_iter without the filter on Whitespace: every token is pushed
scan_tokens_iter_keeps_whitespace(s) ==
  LET r == scan_token(s)
      s1 == [r.s EXCEPT !.tokens = Append(@, r.token)]
  IN  IF r.err # NoErr
      THEN [s |-> r.s, done |-> TRUE, ret |-> Err(r.err)]
      ELSE IF r.token.kind = "Eof"
           THEN [s |-> s1, done |-> TRUE, ret |-> Ok(s1.tokens)]
           ELSE [s |-> s1, done |-> FALSE, ret |-> NoResult]

\* one iteration of the loop of Scanner::scan_tokens, r being the token or
\* the error of let token = self.scan_token()?
scan_tokens_iter(s) ==
  CHOOSE out \in
    {IF r.err # NoErr
     THEN [s |-> r.s, done |-> TRUE, ret |-> Err(r.err)]
     ELSE IF r.token.kind # "Whitespace"
          THEN LET s1 == [r.s EXCEPT !.tokens = Append(@, r.token)]
               IN  IF r.token.kind = "Eof"
                   THEN [s |-> s1, done |-> TRUE, ret |-> Ok(s1.tokens)]
                   ELSE [s |-> s1, done |-> FALSE, ret |-> NoResult]
          ELSE [s |-> r.s, done |-> FALSE, ret |-> NoResult] :
       r \in {scan_token(s)}} : TRUE

RECURSIVE scan_tokens(_)
\* Scanner::scan_tokens run to its return on scanner s
scan_tokens(s) ==
  LET r == scan_tokens_iter(s)
  IN  IF r.done THEN r ELSE scan_tokens(r.s)

\* the characters the sources of ScanInit are made of
SourceAlphabet == {"1", ".", "\"", "\n", " ", "/", "#", "_", "U+00E9"}

\* all texts over alphabet of at most n characters
Texts(alphabet, n) == UNION {[1..k -> alphabet] : k \in 0..n}

ParserIdle ==
  /\ parser = [tokens |-> <<>>, cur_idx |-> 0]
  /\ stack = <<>>
  /\ retval = <<>>
  /\ parse_ret = [status |-> "idle", value |-> <<>>]

\* let mut s = Scanner::new(source)
ScanInit ==
  /\ \E source \in Texts(SourceAlphabet, MaxLen) : scanner = Scanner_new(source)
  /\ scan_pc = "idle"
  /\ scan_ret = NoResult
  /\ calls = 0
  /\ ParserIdle

\* the caller enters scan_tokens (again, once an earlier call has returned)
ScanTokensCall ==
  /\ scan_pc \in {"idle", "done"}
  /\ calls < MaxCalls
  /\ calls' = calls + 1
  /\ scan_pc' = "loop"
  /\ scan_ret' = NoResult
  /\ UNCHANGED <<scanner, parsevars>>

\* one iteration of the loop of scan_tokens that stays in the loop
ScanTokensLoop ==
  /\ scan_pc = "loop"
  /\ \E r \in {scan_tokens_iter(scanner)} :
         /\ ~r.done
         /\ scanner' = r.s
         /\ UNCHANGED <<scan_pc, scan_ret>>
  /\ UNCHANGED <<calls, parsevars>>

\* the iteration of scan_tokens that returns: Ok after Eof, or the first error
ScanTokensReturn ==
  /\ scan_pc = "loop"
  /\ \E r \in {scan_tokens_iter(scanner)} :
         /\ r.done
         /\ scanner' = r.s
         /\ scan_ret' = r.ret
         /\ scan_pc' = "done"
  /\ UNCHANGED <<calls, parsevars>>

ScanNext == ScanTokensCall \/ ScanTokensLoop \/ ScanTokensReturn

SpecScan == ScanInit /\ [][ScanNext]_vars

\* the characters of the punctuation and operator arms of scan_token, and a blank
PunctAlphabet ==
  {"(", ")", "{", "}", ",", ".", "-", "+", ";", "*", "!", "=", "<", ">", "/", " "}

\* let mut s = Scanner::new(source), source made of punctuation and operators
PunctInit ==
  /\ \E source \in Texts(PunctAlphabet, MaxPunct) : scanner = Scanner_new(source)
  /\ scan_pc = "idle"
  /\ scan_ret = NoResult
  /\ calls = 0
  /\ ParserIdle

SpecPunct == PunctInit /\ [][ScanNext]_vars

\* the sixteen keywords of the keyword table of scan_token
KeywordTexts ==
  {<<"a", "n", "d">>, <<"c", "l", "a", "s", "s">>, <<"e", "l", "s", "e">>,
   <<"f", "a", "l", "s", "e">>, <<"f", "o", "r">>, <<"f", "u", "n">>, <<"i", "f">>,
   <<"n", "i", "l">>, <<"o", "r">>, <<"p", "r", "i", "n", "t">>,
   <<"r", "e", "t", "u", "r", "n">>, <<"s", "u", "p", "e", "r">>,
   <<"t", "h", "i", "s">>, <<"t", "r", "u", "e">>, <<"v", "a", "r">>,
   <<"w", "h", "i", "l", "e">>}

\* the characters put around a keyword: identifier-continuation characters
\* that start an identifier ('y', 'U+00E9') and that do not ('1', '_'), a
\* blank and a punctuation character
AffixAlphabet == {"1", "y", "_", "U+00E9", " ", "."}

\* let mut s = Scanner::new(source), source a keyword with characters around it
WordInit ==
  /\ \E k \in KeywordTexts :
       \E pre \in Texts(AffixAlphabet, MaxAffix), suf \in Texts(AffixAlphabet, MaxAffix) :
         scanner = Scanner_new(pre \o k \o suf)
  /\ scan_pc = "idle"
  /\ scan_ret = NoResult
  /\ calls = 0
  /\ ParserIdle

SpecWord == WordInit /\ [][ScanNext]_vars

\* the characters of the sources with line comments: a digit, the slash, the
\* newline and a character that starts no token
CommentAlphabet == {"1", "/", "\n", "#"}

\* let mut s = Scanner::new(source), source with slashes and newlines
CommentInit ==
  /\ \E source \in Texts(CommentAlphabet, MaxComment) : scanner = Scanner_new(source)
  /\ scan_pc = "idle"
  /\ scan_ret = NoResult
  /\ calls = 0
  /\ ParserIdle

SpecComment == CommentInit /\ [][ScanNext]_vars

---------------------------------------------------------------------------
(* Parser *)

\* enum Expression and enum Literal, as tagged tuples
Num(v) == <<"Num", v>>
Str(text) == <<"Str", text>>
Bool(b) == <<"Bool", b>>
Nil == <<"Nil">>
Literal(l) == <<"Literal", l>>
Unary(op, e) == <<"Unary", op, e>>
Binary(e1, op, e2) == <<"Binary", e1, op, e2>>

DigitValue(c) ==
  CASE c = "0" -> 0 [] c = "1" -> 1 [] c = "2" -> 2 [] c = "3" -> 3
    [] c = "4" -> 4 [] c = "5" -> 5 [] c = "6" -> 6 [] c = "7" -> 7
    [] c = "8" -> 8 [] c = "9" -> 9

RECURSIVE Decimal(_)
\* the natural number a run of decimal digits denotes
Decimal(digits) ==
  IF digits = <<>> THEN 0
  ELSE 10 * Decimal(SubSeq(digits, 1, Len(digits) - 1)) + DigitValue(digits[Len(digits)])

RECURSIVE StripZeros(_)
\* a fraction without its trailing zeros
StripZeros(digits) ==
  IF digits # <<>> /\ digits[Len(digits)] = "0"
  THEN StripZeros(SubSeq(digits, 1, Len(digits) - 1))
  ELSE digits

\* an f64 given as num / 10^scale in lowest decimal form (short lexemes denote
\* distinct f64 values exactly when these differ)
F64(num, scale) == [num |-> num, scale |-> scale]

\* cur.lexeme.parse::<f64>() on a lexeme of digits and dots: ok is FALSE when
\* the lexeme is no number
ParseF64(lexeme) ==
  LET dots == {i \in 1..Len(lexeme) : lexeme[i] = "."}
      ok == /\ \A i \in 1..Len(lexeme) : lexeme[i] \in AsciiDigit \cup {"."}
            /\ Cardinality(dots) <= 1
            /\ Len(lexeme) > Cardinality(dots)
  IN  IF ~ok THEN [ok |-> FALSE, value |-> F64(0, 0)]
      ELSE LET d == IF dots = {} THEN Len(lexeme) + 1 ELSE CHOOSE i \in dots : TRUE
               frac == StripZeros(SubSeq(lexeme, d + 1, Len(lexeme)))
           IN  [ok |-> TRUE,
                value |-> F64(Decimal(SubSeq(lexeme, 1, d - 1) \o frac), Len(frac))]

\* Parser::new
Parser_new(tokens) == [tokens |-> tokens, cur_idx |-> 0]

\* current reading the last token again when the cursor is past the end
current_last_again(p) ==
  IF p.tokens = <<>> THEN NoToken
  ELSE IF p.cur_idx < Len(p.tokens) THEN p.tokens[p.cur_idx + 1]
  ELSE p.tokens[Len(p.tokens)]

\* Parser::current: self.tokens.get(self.cur_idx)
current(p) ==
  IF p.cur_idx < Len(p.tokens) THEN p.tokens[p.cur_idx + 1] ELSE NoToken

\* Parser::advance
advance(p) == [p EXCEPT !.cur_idx = @ + 1]

\* Parser::advance_if_eq: the first of the kinds in tokens the current token has
advance_if_eq(p, tokens) ==
  LET cur == current(p)
      hit == {i \in 1..Len(tokens) : cur.kind = tokens[i]}
  IN  IF cur # NoToken /\ hit # {}
      THEN [p |-> advance(p), ret |-> tokens[CHOOSE i \in hit : \A j \in hit : i <= j]]
      ELSE [p |-> p, ret |-> None]

\* the options vectors of the grammar layers
expression_options == <<"NotEqual", "EqualEqual">>
comparison_options == <<"Greater", "GreaterEqual", "Less", "LessEqual">>
term_options == <<"Plus", "Minus">>
factor_options == <<"Times", "Divide">>
unary_options == <<"Minus", "Not">>

\* a stack frame: the function, where it stands, and its locals expr and op
Frame(fn) == [fn |-> fn, pc |-> "entry", expr |-> <<>>, op |-> None]

Top == stack[Len(stack)]

Running(fn) ==
  /\ parse_ret.status = "running"
  /\ stack # <<>>
  /\ Top.fn = fn

\* the running function calls fn, to resume at frame
Call(p, frame, fn) ==
  /\ parser' = p
  /\ stack' = Append([stack EXCEPT ![Len(stack)] = frame], Frame(fn))
  /\ UNCHANGED <<retval, parse_ret, scanvars>>

\* the running function returns e to its caller
Return(p, e) ==
  /\ parser' = p
  /\ stack' = SubSeq(stack, 1, Len(stack) - 1)
  /\ retval' = e
  /\ UNCHANGED <<parse_ret, scanvars>>

\* panic!(msg): the call stack unwinds and parse returns nothing
Panic(msg) ==
  /\ parse_ret' = [status |-> "panicked", value |-> msg]
  /\ stack' = <<>>
  /\ UNCHANGED <<parser, retval, scanvars>>

\* the fold grouping to the right: a op (b op c)
FoldRight(expr, op, right) ==
  IF expr[1] = "Binary" THEN Binary(expr[2], expr[3], Binary(expr[4], op, right))
  ELSE Binary(expr, op, right)

\* expr = Expression::Binary { e1: Box::new(expr), op, e2: Box::new(right) }
Fold(expr, op, right) == Binary(expr, op, right)

\* the body shared by expression, comparison, term and factor: the operand
\* from the layer below, then the while loop folding to the left
BinaryLayer(fn, options, below) ==
  /\ Running(fn)
  /\ \/ /\ Top.pc = "entry"
        /\ Call(parser, [Top EXCEPT !.pc = "left"], below)
     \/ /\ Top.pc \in {"left", "right"}
        /\ LET expr == IF Top.pc = "left" THEN retval
                       ELSE Fold(Top.expr, Top.op, retval)
               a == advance_if_eq(parser, options)
           IN  IF a.ret # None
               THEN Call(a.p, [Top EXCEPT !.pc = "right", !.expr = expr, !.op = a.ret],
                         below)
               ELSE Return(parser, expr)

\* Parser::expression
expression == BinaryLayer("expression", expression_options, "comparison")

\* Parser::comparison
comparison == BinaryLayer("comparison", comparison_options, "term")

\* term taking its operands from unary, not from factor
term_over_unary == BinaryLayer("term", term_options, "unary")

\* Parser::term
term == BinaryLayer("term", term_options, "factor")

\* Parser::factor
factor == BinaryLayer("factor", factor_options, "unary")

\* unary taking the operand of a prefix operator from primary: no nesting
unary_operand_from_primary ==
  /\ Running("unary")
  /\ \/ /\ Top.pc = "entry"
        /\ LET a == advance_if_eq(parser, unary_options)
           IN  IF a.ret # None
               THEN Call(a.p, [Top EXCEPT !.pc = "right", !.op = a.ret], "primary")
               ELSE Call(parser, [Top EXCEPT !.pc = "tail"], "primary")
     \/ /\ Top.pc = "right"
        /\ Return(parser, Unary(Top.op, retval))
     \/ /\ Top.pc = "tail"
        /\ Return(parser, retval)

\* Parser::unary
unary ==
  /\ Running("unary")
  /\ \/ /\ Top.pc = "entry"
        /\ LET a == advance_if_eq(parser, unary_options)
           IN  IF a.ret # None
               THEN Call(a.p, [Top EXCEPT !.pc = "right", !.op = a.ret], "unary")
               ELSE Call(parser, [Top EXCEPT !.pc = "tail"], "primary")
     \/ /\ Top.pc = "right"
        /\ Return(parser, Unary(Top.op, retval))
     \/ /\ Top.pc = "tail"
        /\ Return(parser, retval)

\* the literal arms with a default arm that yields nil and does not panic
PrimaryLiteral_default_nil(cur) ==
  CASE cur.kind = "NumLiteral" ->
         IF ~ParseF64(cur.lexeme).ok
         THEN [msg |-> "Failed to parse number", expr |-> <<>>]
         ELSE [msg |-> NoErr, expr |-> Literal(Num(ParseF64(cur.lexeme).value))]
    [] cur.kind = "StrLiteral" -> [msg |-> NoErr, expr |-> Literal(Str(cur.lexeme))]
    [] cur.kind = "True" -> [msg |-> NoErr, expr |-> Literal(Bool(TRUE))]
    [] cur.kind = "False" -> [msg |-> NoErr, expr |-> Literal(Bool(FALSE))]
    [] OTHER -> [msg |-> NoErr, expr |-> Literal(Nil)]

\* the literal arms of the match in Parser::primary: the expression, or the
\* panic message in msg
PrimaryLiteral(cur) ==
  CASE cur.kind = "NumLiteral" ->
         IF ~ParseF64(cur.lexeme).ok
         THEN [msg |-> "Failed to parse number", expr |-> <<>>]
         ELSE [msg |-> NoErr, expr |-> Literal(Num(ParseF64(cur.lexeme).value))]
    [] cur.kind = "StrLiteral" -> [msg |-> NoErr, expr |-> Literal(Str(cur.lexeme))]
    [] cur.kind = "True" -> [msg |-> NoErr, expr |-> Literal(Bool(TRUE))]
    [] cur.kind = "False" -> [msg |-> NoErr, expr |-> Literal(Bool(FALSE))]
    [] cur.kind = "Nil" -> [msg |-> NoErr, expr |-> Literal(Nil)]
    [] OTHER -> [msg |-> "Expected literal, found wrong TokenType", expr |-> <<>>]

\* primary taking a right parenthesis after a group when there is one, and
\* returning the group without one too
primary_unchecked_group ==
  /\ Running("primary")
  /\ \/ /\ Top.pc = "entry"
        /\ LET cur == current(parser)
           IN  IF cur = NoToken THEN Panic("Expected literal, found EOF")
               ELSE IF cur.kind = "LeftParen"
                    THEN Call(advance(parser), [Top EXCEPT !.pc = "inner"], "expression")
                    ELSE LET l == PrimaryLiteral(cur)
                         IN  IF l.msg # NoErr THEN Panic(l.msg)
                             ELSE Return(advance(parser), l.expr)
     \/ /\ Top.pc = "inner"
        /\ Return(advance_if_eq(parser, <<"RightParen">>).p, retval)

\* Parser::primary
primary ==
  /\ Running("primary")
  /\ \/ /\ Top.pc = "entry"
        /\ LET cur == current(parser)
           IN  IF cur = NoToken THEN Panic("Expected literal, found EOF")
               ELSE IF cur.kind = "LeftParen"
                    THEN Call(advance(parser), [Top EXCEPT !.pc = "inner"], "expression")
                    ELSE LET l == PrimaryLiteral(cur)
                         IN  IF l.msg # NoErr THEN Panic(l.msg)
                             ELSE Return(advance(parser), l.expr)
     \/ /\ Top.pc = "inner"
        /\ LET a == advance_if_eq(parser, <<"RightParen">>)
           IN  IF a.ret = None THEN Panic("Error: no matching right parenthesis")
               ELSE Return(a.p, retval)

\* Parser::parse: the call of expression, and the return of what it returned
parse ==
  \/ /\ parse_ret.status = "new"
     /\ parse_ret' = [parse_ret EXCEPT !.status = "running"]
     /\ stack' = <<Frame("expression")>>
     /\ UNCHANGED <<parser, retval, scanvars>>
  \/ /\ parse_ret.status = "running"
     /\ stack = <<>>
     /\ parse_ret' = [status |-> "returned", value |-> retval]
     /\ UNCHANGED <<parser, stack, retval, scanvars>>

---------------------------------------------------------------------------
(* Token sequences handed to Parser::new *)

\* the lexeme a token of each kind carries
LexemeOf(kind) ==
  CASE kind = "NotEqual" -> <<"!", "=">>
    [] kind = "EqualEqual" -> <<"=", "=">>
    [] kind = "Greater" -> <<">">>
    [] kind = "GreaterEqual" -> <<">", "=">>
    [] kind = "Less" -> <<"<">>
    [] kind = "LessEqual" -> <<"<", "=">>
    [] kind = "Plus" -> <<"+">>
    [] kind = "Minus" -> <<"-">>
    [] kind = "Times" -> <<"*">>
    [] kind = "Divide" -> <<"/">>
    [] kind = "Not" -> <<"!">>
    [] kind = "LeftParen" -> <<"(">>
    [] kind = "RightParen" -> <<")">>
    [] kind = "Semicolon" -> <<";">>
    [] kind = "True" -> <<"t", "r", "u", "e">>
    [] kind = "False" -> <<"f", "a", "l", "s", "e">>
    [] kind = "Nil" -> <<"n", "i", "l">>
    [] kind = "StrLiteral" -> <<"\"", "a", "\"">>
    [] kind = "Eof" -> <<>>

\* a token of the given kind on line 1
Tok(kind) == Token(kind, LexemeOf(kind), 1)

\* a number literal token
NumTok(lexeme) == Token("NumLiteral", lexeme, 1)

\* the operand at position i of an operator chain: the number literal i
Operand(i) == NumTok(<<<<"1", "2", "3", "4", "5", "6", "7", "8", "9">>[i]>>)

\* the operator kinds of the four binary layers
BinaryOps ==
  {"NotEqual", "EqualEqual", "Greater", "GreaterEqual", "Less", "LessEqual",
   "Plus", "Minus", "Times", "Divide"}

\* the tokens of the short sequences: every literal kind, a number literal
\* whose lexeme is no number, operators, parentheses, Eof and a kind that
\* starts no expression
ShortTokens ==
  {NumTok(<<"1">>), NumTok(<<".">>), Tok("StrLiteral"), Tok("True"), Tok("False"),
   Tok("Nil"), Tok("Plus"), Tok("Minus"), Tok("Times"), Tok("Not"),
   Tok("LeftParen"), Tok("RightParen"), Tok("Eof"), Tok("Semicolon")}

\* longest short sequence
MaxTokens == 3
\* most operators in an operator chain
MaxOps == 2
\* most prefix operators before an operand
MaxPrefix == 2

\* operand 1, ops[1], operand 2, ..., ops[k], operand k+1
Chain(ops) ==
  [i \in 1..(2 * Len(ops) + 1) |->
     IF i % 2 = 1 THEN Operand((i + 1) \div 2) ELSE Tok(ops[i \div 2])]

\* chain with a left parenthesis before operand i and, when closed, a right
\* parenthesis after operand j
Grouped(chain, i, j, closed) ==
  SubSeq(chain, 1, 2 * i - 2) \o <<Tok("LeftParen")>>
    \o SubSeq(chain, 2 * i - 1, 2 * j - 1)
    \o (IF closed THEN <<Tok("RightParen")>> ELSE <<>>)
    \o SubSeq(chain, 2 * j, Len(chain))

\* the operator chains, plain and with one group, as the Scanner ends them,
\* by Eof, and the plain ones also bare, as the test of the parser builds them
Chains ==
  LET plain == {Chain(ops) : ops \in UNION {[1..k -> BinaryOps] : k \in 0..MaxOps}}
      grouped ==
        UNION {{Grouped(c, r[1], r[2], closed) :
                  r \in {q \in (1..MaxOps + 1) \X (1..MaxOps + 1) :
                            q[1] <= q[2] /\ 2 * q[2] - 1 <= Len(c)},
                  closed \in BOOLEAN} : c \in plain}
  IN  {c \o <<Tok("Eof")>> : c \in plain \cup grouped} \cup plain

ScannerIdle ==
  /\ scanner = Scanner_new(<<>>)
  /\ scan_pc = "idle"
  /\ scan_ret = NoResult
  /\ calls = 0

\* let mut p = Parser::new(tokens)
ParseInit ==
  /\ \E tokens \in Texts(ShortTokens, MaxTokens) \cup Chains :
       parser = Parser_new(tokens)
  /\ stack = <<>>
  /\ retval = <<>>
  /\ parse_ret = [status |-> "new", value |-> <<>>]
  /\ ScannerIdle

ParseNext == parse \/ expression \/ comparison \/ term \/ factor \/ unary \/ primary

SpecParse == ParseInit /\ [][ParseNext]_vars

\* the prefix operators as tokens, in the order given by kinds
PrefixTokens(kinds) == [i \in 1..Len(kinds) |-> Tok(kinds[i])]

\* operands with prefix operators before them: one operand, and two operands
\* joined by a binary operator of the lowest, the term or the factor layer,
\* bare and closed by Eof
PrefixChains ==
  LET prefixes == Texts({"Minus", "Not"}, MaxPrefix)
      one == {PrefixTokens(p) \o <<Operand(1)>> : p \in prefixes}
      two == {PrefixTokens(pq[1]) \o <<Operand(1), Tok(op)>>
                \o PrefixTokens(pq[2]) \o <<Operand(2)>> :
                pq \in prefixes \X prefixes, op \in {"EqualEqual", "Minus", "Times"}}
  IN  one \cup two \cup {c \o <<Tok("Eof")>> : c \in one \cup two}

\* let mut p = Parser::new(tokens), tokens with prefix operators
PrefixInit ==
  /\ \E tokens \in PrefixChains : parser = Parser_new(tokens)
  /\ stack = <<>>
  /\ retval = <<>>
  /\ parse_ret = [status |-> "new", value |-> <<>>]
  /\ ScannerIdle

SpecPrefix == PrefixInit /\ [][ParseNext]_vars

---------------------------------------------------------------------------
(* A Scanner or a Parser run by a caller that, once it has called scan_tokens
   or parse, executes the call without suspension: the code is synchronous
   and single-threaded, so a step of a running call that can be taken is
   taken *)

\* longest source text of a run
MaxRun == 3

\* no Scanner is in use: the caller of the Parser makes no scan_tokens call
NoScanner ==
  /\ scanner = Scanner_new(<<>>)
  /\ scan_pc = "idle"
  /\ scan_ret = NoResult
  /\ calls = MaxCalls

\* a Scanner over a source, or a Parser over tokens with prefix operators
RunInit ==
  \/ /\ \E source \in Texts(SourceAlphabet, MaxRun) : scanner = Scanner_new(source)
     /\ scan_pc = "idle"
     /\ scan_ret = NoResult
     /\ calls = 0
     /\ ParserIdle
  \/ /\ \E tokens \in PrefixChains : parser = Parser_new(tokens)
     /\ stack = <<>>
     /\ retval = <<>>
     /\ parse_ret = [status |-> "new", value |-> <<>>]
     /\ NoScanner

RunNext == ScanNext \/ ParseNext

SpecRun ==
  /\ RunInit
  /\ [][RunNext]_vars
  /\ WF_vars(ScanTokensLoop \/ ScanTokensReturn)
  /\ WF_vars(ParseNext)

---------------------------------------------------------------------------
(* Claims about the Scanner, checked under SpecScan *)

\* the first scan_tokens call on the Scanner has returned
FirstCallDone == scan_pc = "done" /\ calls = 1

RECURSIVE ScanSpans(_, _)
\* the byte span and the kind of every token scan_token yields from scanner
\* s on, the Whitespace ones included, up to Eof or the first error
ScanSpans(s, acc) ==
  LET r == scan_token(s)
      acc1 == Append(acc, [from |-> s.current, to |-> r.s.current, kind |-> r.token.kind])
  IN  IF r.err # NoErr THEN acc
      ELSE IF r.token.kind = "Eof" THEN acc1
      ELSE ScanSpans(r.s, acc1)

\* the spans of the tokens a first scan of source pushes, in order
TokenSpans(source) ==
  SelectSeq(ScanSpans(Scanner_new(source), <<>>), LAMBDA x : x.kind # "Whitespace")

\* the character of text that starts at byte offset at, None past the end
CharAt(text, at) ==
  LET idx == {i \in 1..Len(text) : ByteOffset(text, i) = at}
  IN  IF idx = {} THEN None ELSE text[CHOOSE i \in idx : TRUE]

\* the character of text that ends at byte offset at, None at the start
CharBefore(text, at) ==
  LET idx == {i \in 1..Len(text) : ByteOffset(text, i + 1) = at}
  IN  IF idx = {} THEN None ELSE text[CHOOSE i \in idx : TRUE]

\* the number of newline characters of text before byte offset at
NewlinesBefore(text, at) ==
  Cardinality({i \in 1..Len(text) : text[i] = "\n" /\ ByteOffset(text, i) < at})

\* C1: when scan_tokens of a fresh Scanner succeeds, the returned sequence
\* holds exactly one Eof token, that token is the last one and has the empty
\* lexeme, and no token of the sequence has kind Whitespace.
C1_OneEofLastNoWhitespace ==
  (FirstCallDone /\ scan_ret.tag = "Ok") =>
    LET t == scan_ret.tokens
    IN  /\ Len(t) >= 1
        /\ t[Len(t)].kind = "Eof"
        /\ t[Len(t)].lexeme = <<>>
        /\ \A i \in 1..(Len(t) - 1) : t[i].kind # "Eof"
        /\ \A i \in 1..Len(t) : t[i].kind # "Whitespace"

\* a successful first scan of a source with a blank, a newline and a line
\* comment between tokens
C1_Witness ==
  /\ FirstCallDone
  /\ scan_ret.tag = "Ok"
  /\ scanner.source \in {<<"1", " ", "\n", "1">>, <<"/", "/", "\n", "1">>}
  /\ Len(scan_ret.tokens) >= 2

\* C4: every token a successful scan_tokens returns reports as its line
\* 1 + the number of newline characters of the source before the first
\* character of the token.
C4_LineOfFirstCharacter ==
  (FirstCallDone /\ scan_ret.tag = "Ok") =>
    \A i \in 1..Len(scan_ret.tokens) :
      scan_ret.tokens[i].line =
        1 + NewlinesBefore(scanner.source, TokenSpans(scanner.source)[i].from)

\* the characters that start a token or a blank
StartsToken ==
  {"(", ")", "{", "}", ",", ".", "-", "+", ";", "*", "!", "=", "<", ">", "/", "\""}
    \cup WhiteSpace \cup AsciiDigit \cup XidStart

\* index of the first character of text from index i on that is in set, and
\* Len(text) + 1 when there is none
FirstIn(text, i, set) ==
  LET hit == {j \in i..Len(text) : text[j] \in set}
  IN  IF hit = {} THEN Len(text) + 1 ELSE CHOOSE j \in hit : \A k \in hit : j <= k

RECURSIVE FirstFault(_, _, _)
\* the first lexical fault of text from index i on, reading the text as the
\* language defines it: a string literal runs to the next quote, a line comment
\* to the next newline, and, when identifiers is TRUE, an identifier through
\* its continuation characters.  NoErr when the text has no fault.
FirstFault(text, i, identifiers) ==
  IF i > Len(text) THEN NoErr
  ELSE IF text[i] = "\"" THEN
         IF FirstIn(text, i + 1, {"\""}) > Len(text) THEN "Unterminated string"
         ELSE FirstFault(text, FirstIn(text, i + 1, {"\""}) + 1, identifiers)
  ELSE IF text[i] = "/" /\ i < Len(text) /\ text[i + 1] = "/" THEN
         FirstFault(text, FirstIn(text, i + 2, {"\n"}), identifiers)
  ELSE IF identifiers /\ text[i] \in XidStart THEN
         FirstFault(text, FirstIn(text, i + 1, Char \ XidContinue), identifiers)
  ELSE IF text[i] \notin StartsToken THEN "Found unexpected character"
  ELSE FirstFault(text, i + 1, identifiers)

\* C6, as claimed: a source that holds, outside comments and string literals,
\* a character that starts no token, or an unclosed string literal, makes
\* scan_tokens of a fresh Scanner return the error of the first such fault.
C6_FaultOutsideCommentsAndStrings ==
  (FirstCallDone /\ FirstFault(scanner.source, 1, FALSE) # NoErr) =>
    scan_ret = Err(FirstFault(scanner.source, 1, FALSE))

\* C6, amended: a source that holds, outside comments, string literals and
\* identifiers, a character that starts no token, or an unclosed string
\* literal, makes scan_tokens of a fresh Scanner return the error of the first
\* such fault and no token list, whatever tokens precede the fault.
C6_FirstFaultIsReturned ==
  (FirstCallDone /\ FirstFault(scanner.source, 1, TRUE) # NoErr) =>
    /\ scan_ret = Err(FirstFault(scanner.source, 1, TRUE))
    /\ scan_ret.tokens = <<>>

\* an unclosed string after two well-formed tokens and a comment-free blank
C6_Witness ==
  /\ FirstCallDone
  /\ scanner.source = <<"1", ".", " ", "\"">>
  /\ Len(scanner.tokens) = 2
  /\ scan_ret = Err("Unterminated string")

\* C9: the error scan_tokens returns for an unrecognized character carries the
\* character and its line: it differs from the error of every source that
\* fails on another character or on another line.
C9_ErrorCarriesCharacterAndLine ==
  (FirstCallDone /\ scan_ret.err = "Found unexpected character") =>
    \A other \in Texts(SourceAlphabet, 2) :
      LET r == scan_tokens(Scanner_new(other))
      IN  (/\ r.ret.err = "Found unexpected character"
           /\ <<r.s.source[r.s.iter], r.s.line>> # <<scanner.source[scanner.iter], scanner.line>>)
            => r.ret # scan_ret

\* digits, or digits, one '.', digits
IsNumberLexeme(lexeme) ==
  LET dots == {i \in 1..Len(lexeme) : lexeme[i] = "."}
  IN  /\ Len(lexeme) >= 1
      /\ \A i \in 1..Len(lexeme) : lexeme[i] \in AsciiDigit \cup {"."}
      /\ Cardinality(dots) <= 1
      /\ lexeme[1] # "."
      /\ lexeme[Len(lexeme)] # "."

\* C10: the lexeme of every NumberLiteral token is a maximal run of digits,
\* optionally followed by one '.' and a non-empty maximal run of digits: no
\* digit stands right before or right after it, and a '.' followed by a digit
\* stands right after it only when the lexeme holds a '.' already.
C10_NumberLexemes ==
  (calls <= 1) =>
    \A i \in 1..Len(scanner.tokens) :
      scanner.tokens[i].kind = "NumberLiteral" =>
        LET lexeme == scanner.tokens[i].lexeme
            span == TokenSpans(scanner.source)[i]
            after == CharAt(scanner.source, span.to)
            after2 == CharAt(scanner.source, span.to + 1)
        IN  /\ IsNumberLexeme(lexeme)
            /\ lexeme = Slice(scanner.source, span.from, span.to)
            /\ CharBefore(scanner.source, span.from) \notin AsciiDigit
            /\ after \notin AsciiDigit
            /\ (after = "." /\ after2 \in AsciiDigit) => "." \in {lexeme[k] : k \in 1..Len(lexeme)}

\* 1. scanned as the number 1 and a Dot, or 1.1 as one number
C10_Witness ==
  /\ FirstCallDone
  /\ \/ /\ scanner.source = <<"1", ".">>
        /\ scanner.tokens[1] = Token("NumberLiteral", <<"1">>, 1)
        /\ scanner.tokens[2] = Token("Dot", <<".">>, 1)
     \/ /\ scanner.source = <<"1", ".", "1">>
        /\ scanner.tokens[1] = Token("NumberLiteral", <<"1", ".", "1">>, 1)
        /\ Len(scanner.tokens) = 2

\* the kind the language gives a punctuation or operator word, None for
\* any other word
PunctKind(word) ==
  CASE word = <<"(">> -> "LeftParen"
    [] word = <<")">> -> "RightParen"
    [] word = <<"{">> -> "LeftBrace"
    [] word = <<"}">> -> "RightBrace"
    [] word = <<",">> -> "Comma"
    [] word = <<".">> -> "Dot"
    [] word = <<"-">> -> "Minus"
    [] word = <<"+">> -> "Plus"
    [] word = <<";">> -> "Semicolon"
    [] word = <<"*">> -> "Star"
    [] word = <<"/">> -> "Slash"
    [] word = <<"!">> -> "Bang"
    [] word = <<"=">> -> "Equal"
    [] word = <<"<">> -> "Less"
    [] word = <<">">> -> "Greater"
    [] word = <<"!", "=">> -> "BangEqual"
    [] word = <<"=", "=">> -> "EqualEqual"
    [] word = <<"<", "=">> -> "LessEqual"
    [] word = <<">", "=">> -> "GreaterEqual"
    [] OTHER -> None

RECURSIVE Words(_, _)
\* the non-empty words of text between its blanks, word being the one begun
Words(text, word) ==
  IF text = <<>> THEN (IF word = <<>> THEN <<>> ELSE <<word>>)
  ELSE IF Head(text) \in WhiteSpace
       THEN (IF word = <<>> THEN <<>> ELSE <<word>>) \o Words(Tail(text), <<>>)
       ELSE Words(Tail(text), Append(word, Head(text)))

\* C11: a source made of punctuation and operator words separated by blanks
\* scans to the kinds of its words in source order, then Eof; and every token
\* that starts with '!' '=' '<' or '>' has the two-character kind and two
\* characters when the next character is '=', and else the one-character kind
\* and one character, the next character being left for the next token.
C11_PunctuationAndOperators ==
  FirstCallDone =>
    LET source == scanner.source
        w == Words(source, <<>>)
        spans == TokenSpans(source)
    IN  /\ (\A i \in 1..Len(w) : PunctKind(w[i]) # None) =>
              /\ scan_ret.tag = "Ok"
              /\ Len(scan_ret.tokens) = Len(w) + 1
              /\ \A i \in 1..Len(w) :
                    /\ scan_ret.tokens[i].kind = PunctKind(w[i])
                    /\ scan_ret.tokens[i].lexeme = w[i]
              /\ scan_ret.tokens[Len(w) + 1].kind = "Eof"
        /\ scan_ret.tag = "Ok" =>
              \A i \in 1..Len(spans) :
                LET c == CharAt(source, spans[i].from)
                    t == scan_ret.tokens[i]
                IN  c \in {"!", "=", "<", ">"} =>
                      IF CharAt(source, spans[i].from + 1) = "="
                      THEN /\ t.kind = PunctKind(<<c, "=">>)
                           /\ spans[i].to = spans[i].from + 2
                      ELSE /\ t.kind = PunctKind(<<c>>)
                           /\ spans[i].to = spans[i].from + 1

\* === scanned as EqualEqual, Equal, Eof
C11_Witness ==
  /\ FirstCallDone
  /\ scanner.source = <<"=", "=", "=">>
  /\ scan_ret.tag = "Ok"
  /\ scan_ret.tokens[1] = Token("EqualEqual", <<"=", "=">>, 1)
  /\ scan_ret.tokens[2] = Token("Equal", <<"=">>, 1)
  /\ scan_ret.tokens[3].kind = "Eof"

\* the kinds of the keyword table
KeywordKinds ==
  {"And", "Class", "Else", "False", "For", "Fun", "If", "Nil", "Or", "Print",
   "Return", "Super", "This", "True", "Var", "While"}

\* C12: a token that starts with an identifier-start character is a maximal
\* run of identifier-continuation characters; it has a keyword kind exactly
\* when its whole lexeme is one of the sixteen keywords, and else the kind
\* Identifier; no other token has a keyword kind or the kind Identifier.
C12_KeywordIffWholeLexeme ==
  (FirstCallDone /\ scan_ret.tag = "Ok") =>
    LET source == scanner.source
        spans == TokenSpans(source)
    IN  \A i \in 1..Len(spans) :
          LET t == scan_ret.tokens[i]
          IN  IF CharAt(source, spans[i].from) \in XidStart
              THEN /\ t.lexeme = Slice(source, spans[i].from, spans[i].to)
                   /\ \A j \in 1..Len(t.lexeme) : t.lexeme[j] \in XidContinue
                   /\ CharAt(source, spans[i].to) \notin XidContinue
                   /\ t.kind \in KeywordKinds \cup {"Identifier"}
                   /\ t.kind \in KeywordKinds <=> t.lexeme \in KeywordTexts
                   /\ t.kind = Keyword(t.lexeme)
              ELSE t.kind \notin KeywordKinds \cup {"Identifier"}

\* classy scanned as one Identifier and Eof
C12_Witness ==
  /\ FirstCallDone
  /\ scanner.source = <<"c", "l", "a", "s", "s", "y">>
  /\ scan_ret.tag = "Ok"
  /\ Len(scan_ret.tokens) = 2
  /\ scan_ret.tokens[1] = Token("Identifier", <<"c", "l", "a", "s", "s", "y">>, 1)

RECURSIVE CommentRuns(_, _)
\* the line comments of a text without string literals from index i on, as
\* the language defines them: each a pair of the index of its first slash and
\* the index of the newline that ends it (Len(text) + 1 at the end of input)
CommentRuns(text, i) ==
  IF i > Len(text) THEN {}
  ELSE IF text[i] = "/" /\ i < Len(text) /\ text[i + 1] = "/"
       THEN {<<i, FirstIn(text, i + 2, {"\n"})>>}
              \cup CommentRuns(text, FirstIn(text, i + 2, {"\n"}))
       ELSE CommentRuns(text, i + 1)

\* C13: on a successful scan every line comment is consumed as one Whitespace
\* span from its first slash up to, not including, the newline or the end of
\* input that ends it; no pushed token overlaps a comment and each lexeme is
\* the text of its span; a slash outside a comment is a Slash token; and
\* every pushed token reports line 1 + the newlines before it, those that end
\* comments included.
C13_LineComments ==
  (FirstCallDone /\ scan_ret.tag = "Ok") =>
    LET source == scanner.source
        runs == CommentRuns(source, 1)
        all == ScanSpans(Scanner_new(source), <<>>)
        spans == TokenSpans(source)
        spanset == {all[k] : k \in 1..Len(all)}
        in_run(i) == \E r \in runs : r[1] <= i /\ i < r[2]
    IN  /\ \A r \in runs :
              [from |-> ByteOffset(source, r[1]), to |-> ByteOffset(source, r[2]),
               kind |-> "Whitespace"] \in spanset
        /\ Len(scan_ret.tokens) = Len(spans)
        /\ \A k \in 1..Len(spans) :
              /\ scan_ret.tokens[k].kind = spans[k].kind
              /\ scan_ret.tokens[k].lexeme = Slice(source, spans[k].from, spans[k].to)
              /\ scan_ret.tokens[k].line = 1 + NewlinesBefore(source, spans[k].from)
              /\ \A r \in runs :
                    \/ spans[k].to <= ByteOffset(source, r[1])
                    \/ spans[k].from >= ByteOffset(source, r[2])
        /\ \A i \in 1..Len(source) :
              (source[i] = "/" /\ ~in_run(i)) =>
                [from |-> ByteOffset(source, i), to |-> ByteOffset(source, i) + 1,
                 kind |-> "Slash"] \in spanset

\* 1, a comment that holds a character that starts no token, a newline, 1:
\* scanned as NumberLiteral on line 1, NumberLiteral on line 2, Eof
C13_Witness ==
  /\ FirstCallDone
  /\ scanner.source = <<"1", "/", "/", "#", "\n", "1">>
  /\ scan_ret.tag = "Ok"
  /\ Len(scan_ret.tokens) = 3
  /\ scan_ret.tokens[1] = Token("NumberLiteral", <<"1">>, 1)
  /\ scan_ret.tokens[2] = Token("NumberLiteral", <<"1">>, 2)
  /\ scan_ret.tokens[3].kind = "Eof"

\* C14: every token but the Eof of a successful scan round-trips: scan_tokens
\* of a fresh Scanner over the lexeme of the token alone succeeds and returns
\* one token of the same kind and the same lexeme, and then Eof.
C14_LexemeRoundTrip ==
  (FirstCallDone /\ scan_ret.tag = "Ok") =>
    \A i \in 1..(Len(scan_ret.tokens) - 1) :
      LET t == scan_ret.tokens[i]
          r == scan_tokens(Scanner_new(t.lexeme)).ret
      IN  /\ r.tag = "Ok"
          /\ Len(r.tokens) = 2
          /\ r.tokens[1].kind = t.kind
          /\ r.tokens[1].lexeme = t.lexeme
          /\ r.tokens[2].kind = "Eof"

\* an empty string literal, a number and a dot, scanned to three tokens and Eof
C14_Witness ==
  /\ FirstCallDone
  /\ scanner.source = <<"\"", "\"", "1", ".">>
  /\ scan_ret.tag = "Ok"
  /\ Len(scan_ret.tokens) = 4
  /\ scan_ret.tokens[1].kind = "StringLiteral"
  /\ scan_ret.tokens[3].kind = "Dot"

\* C15: a second scan_tokens call on the same Scanner returns the outcome of
\* the first call: the result is a function of the source text only, with no
\* second Eof, no token carried over and no success past an earlier error.
C15_SecondCallSameOutcome ==
  (scan_pc = "done" /\ calls = 2) =>
    scan_ret = scan_tokens(Scanner_new(scanner.source)).ret

RECURSIVE ScanLexemes(_, _)
\* the lexemes of the tokens scan_token yields from scanner s on, the
\* Whitespace ones included, concatenated in order up to Eof or the first error
ScanLexemes(s, acc) ==
  LET r == scan_token(s)
  IN  IF r.err # NoErr THEN acc
      ELSE IF r.token.kind = "Eof" THEN acc \o r.token.lexeme
      ELSE ScanLexemes(r.s, acc \o r.token.lexeme)

\* C19: always 0 <= start <= current <= len(source); between the scan_token
\* calls of a scan start = current; the token a scan_token call yields has
\* the lexeme source[start..current], start being where the call began and
\* current where it ended; so on a successful scan the lexemes of all scanned
\* tokens, the Whitespace ones included, concatenated in order are the source,
\* the spans of the tokens reach from 0 to len(source) without gap or overlap,
\* and every returned lexeme is the text of its span, the spans being in
\* source order.
C19_TokensTileSource ==
  LET source == scanner.source
      all == ScanSpans(Scanner_new(source), <<>>)
      spans == TokenSpans(source)
  IN  /\ 0 <= scanner.start
      /\ scanner.start <= scanner.current
      /\ scanner.current <= ByteLen(source)
      /\ (calls <= 1 /\ scan_ret.tag # "Err") => scanner.start = scanner.current
      /\ scan_pc = "loop" =>
            LET r == scan_token(scanner)
            IN  r.err = NoErr =>
                  /\ r.token.lexeme = Slice(source, scanner.current, r.s.current)
                  /\ r.s.start = r.s.current
      /\ (FirstCallDone /\ scan_ret.tag = "Ok") =>
            /\ ScanLexemes(Scanner_new(source), <<>>) = source
            /\ all[1].from = 0
            /\ all[Len(all)].to = ByteLen(source)
            /\ \A k \in 1..(Len(all) - 1) :
                  all[k].from <= all[k].to /\ all[k + 1].from = all[k].to
            /\ Len(scan_ret.tokens) = Len(spans)
            /\ \A i \in 1..Len(spans) :
                  scan_ret.tokens[i].lexeme = Slice(source, spans[i].from, spans[i].to)
            /\ \A i \in 1..(Len(spans) - 1) : spans[i].to <= spans[i + 1].from

\* a two-byte identifier, a blank and a line comment: one token and Eof, the
\* cursor at the byte length of the source
C19_Witness ==
  /\ FirstCallDone
  /\ scan_ret.tag = "Ok"
  /\ scanner.source = <<"U+00E9", " ", "/", "/">>
  /\ scanner.start = 5
  /\ scanner.current = 5
  /\ scan_ret.tokens[1] = Token("Identifier", <<"U+00E9">>, 1)
  /\ Len(scan_ret.tokens) = 2

---------------------------------------------------------------------------
(* Claims about the Parser, checked under SpecParse *)

\* parse has returned or has panicked
ParseDone == parse_ret.status \in {"returned", "panicked"}

\* the tree of operand i
Lit(i) == Literal(Num(F64(i, 0)))

\* the tokens without a closing Eof
Body(tokens) ==
  IF tokens # <<>> /\ tokens[Len(tokens)].kind = "Eof"
  THEN SubSeq(tokens, 1, Len(tokens) - 1)
  ELSE tokens

\* the kinds at the operator positions of a chain
OpsOf(tokens) == [i \in 1..((Len(Body(tokens)) - 1) \div 2) |-> Body(tokens)[2 * i].kind]

\* tokens is a plain operator chain, bare or closed by Eof
IsPlainChain(tokens) ==
  /\ Len(Body(tokens)) % 2 = 1
  /\ \A i \in 1..Len(OpsOf(tokens)) : OpsOf(tokens)[i] \in BinaryOps
  /\ Body(tokens) = Chain(OpsOf(tokens))

\* the precedence layer of a binary operator: the higher, the tighter
LayerOf(op) ==
  CASE op \in {"NotEqual", "EqualEqual"} -> 1
    [] op \in {"Greater", "GreaterEqual", "Less", "LessEqual"} -> 2
    [] op \in {"Plus", "Minus"} -> 3
    [] op \in {"Times", "Divide"} -> 4

RECURSIVE LeftTree(_, _)
\* ((operand 1 ops[1] operand 2) ops[2] operand 3) ... up to ops[k]
LeftTree(ops, k) ==
  IF k = 0 THEN Lit(1) ELSE Binary(LeftTree(ops, k - 1), ops[k], Lit(k + 1))

\* C2: every binary layer is left-associative: a chain of operands joined by
\* operators of one layer parses to the tree nested to the left, and a op b
\* to Binary{a, op, b}.
C2_LeftAssociative ==
  (/\ ParseDone
   /\ IsPlainChain(parser.tokens)
   /\ Len(OpsOf(parser.tokens)) >= 1
   /\ \A i \in 1..Len(OpsOf(parser.tokens)) :
        LayerOf(OpsOf(parser.tokens)[i]) = LayerOf(OpsOf(parser.tokens)[1]))
    => /\ parse_ret.status = "returned"
       /\ parse_ret.value = LeftTree(OpsOf(parser.tokens), Len(OpsOf(parser.tokens)))

\* 1 / 2 * 3 parsed to (1 / 2) * 3
C2_Witness ==
  /\ parse_ret.status = "returned"
  /\ parser.tokens = Chain(<<"Divide", "Times">>) \o <<Tok("Eof")>>
  /\ parse_ret.value = Binary(Binary(Lit(1), "Divide", Lit(2)), "Times", Lit(3))

\* C3: precedence is equality < comparison < term < factor: of two operators
\* of different layers the tighter one takes the operand between them.
C3_Precedence ==
  (/\ ParseDone
   /\ IsPlainChain(parser.tokens)
   /\ Len(OpsOf(parser.tokens)) = 2
   /\ LayerOf(OpsOf(parser.tokens)[1]) # LayerOf(OpsOf(parser.tokens)[2]))
    => LET op1 == OpsOf(parser.tokens)[1]
           op2 == OpsOf(parser.tokens)[2]
       IN  /\ parse_ret.status = "returned"
           /\ parse_ret.value =
                IF LayerOf(op1) < LayerOf(op2)
                THEN Binary(Lit(1), op1, Binary(Lit(2), op2, Lit(3)))
                ELSE Binary(Binary(Lit(1), op1, Lit(2)), op2, Lit(3))

\* 1 + 2 * 3 parsed to 1 + (2 * 3)
C3_Witness ==
  /\ parse_ret.status = "returned"
  /\ parser.tokens = Chain(<<"Plus", "Times">>) \o <<Tok("Eof")>>
  /\ parse_ret.value = Binary(Lit(1), "Plus", Binary(Lit(2), "Times", Lit(3)))

\* C5: whenever parse returns an expression, the cursor stands on the closing
\* Eof token or at the end of the sequence: no other token is left unconsumed.
C5_ParseCoversInput ==
  parse_ret.status = "returned" =>
    current(parser) = NoToken \/ current(parser).kind = "Eof"

\* the tree of a chain of at most two operators, as C2 and C3 give it
PlainTree(ops) ==
  IF Len(ops) = 2 /\ LayerOf(ops[1]) < LayerOf(ops[2])
  THEN Binary(Lit(1), ops[1], Binary(Lit(2), ops[2], Lit(3)))
  ELSE LeftTree(ops, Len(ops))

\* the tree of a chain of at most two operators whose operands i..j are grouped
GroupTree(ops, i, j) ==
  IF Len(ops) = 2 /\ i = 1 /\ j = 2
  THEN Binary(Binary(Lit(1), ops[1], Lit(2)), ops[2], Lit(3))
  ELSE IF Len(ops) = 2 /\ i = 2 /\ j = 3
       THEN Binary(Lit(1), ops[1], Binary(Lit(2), ops[2], Lit(3)))
       ELSE PlainTree(ops)

\* the number of tokens of the given kind among the first n tokens
Count(tokens, kind, n) == Cardinality({i \in 1..n : tokens[i].kind = kind})

\* C7: a parenthesized group parses to the tree of its inner expression, so
\* that ( 1 + 2 ) * 3 has the additive node as left operand; and a group
\* whose inner expression is not followed by a right parenthesis makes parse
\* panic: parse returns only with every group it entered closed.
C7_Grouping ==
  /\ (ParseDone /\ Count(parser.tokens, "LeftParen", Len(parser.tokens)) = 1) =>
       LET chain == SelectSeq(Body(parser.tokens),
                              LAMBDA t : t.kind \notin {"LeftParen", "RightParen"})
           ops == OpsOf(chain)
           lp == CHOOSE n \in 1..Len(parser.tokens) : parser.tokens[n].kind = "LeftParen"
           i == (lp + 1) \div 2
       IN  (IsPlainChain(chain) /\ Len(ops) <= 2) =>
             \A j \in i..(Len(ops) + 1) :
               /\ parser.tokens = Grouped(chain, i, j, TRUE) \o <<Tok("Eof")>>
                    => /\ parse_ret.status = "returned"
                       /\ parse_ret.value = GroupTree(ops, i, j)
               /\ parser.tokens = Grouped(chain, i, j, FALSE) \o <<Tok("Eof")>>
                    => /\ parse_ret.status = "panicked"
                       /\ parse_ret.value = "Error: no matching right parenthesis"
  /\ parse_ret.status = "returned" =>
       Count(parser.tokens, "LeftParen", parser.cur_idx)
         = Count(parser.tokens, "RightParen", parser.cur_idx)

\* ( 1 + 2 with the end of input where the right parenthesis is due
C7_Witness ==
  /\ parse_ret.status = "panicked"
  /\ parser.tokens = Grouped(Chain(<<"Plus">>), 1, 2, FALSE) \o <<Tok("Eof")>>
  /\ parser.cur_idx = 4
  /\ parse_ret.value = "Error: no matching right parenthesis"

\* the kinds a primary expression starts with
PrimaryKinds == {"NumLiteral", "StrLiteral", "True", "False", "Nil", "LeftParen"}

\* C8: whenever primary is entered with the cursor past the last token or on
\* a token that starts no primary expression (Eof included), parse panics and
\* returns no expression; so for the empty input, 1 + and -.
C8_PrimaryRejects ==
  /\ [][(/\ Running("primary")
         /\ Top.pc = "entry"
         /\ current(parser) = NoToken \/ current(parser).kind \notin PrimaryKinds)
          => /\ parse_ret'.status = "panicked"
             /\ parse_ret'.value \in {"Expected literal, found EOF",
                                      "Expected literal, found wrong TokenType"}
             /\ stack' = <<>>]_vars
  /\ []((/\ ParseDone
         /\ Body(parser.tokens) \in {<<>>, <<NumTok(<<"1">>), Tok("Plus")>>, <<Tok("Minus")>>})
          => parse_ret.status = "panicked")

\* 1 + with nothing behind the operator
C8_Witness ==
  /\ parse_ret.status = "panicked"
  /\ parser.tokens = <<NumTok(<<"1">>), Tok("Plus")>>
  /\ parse_ret.value = "Expected literal, found EOF"

\* C16: the cursor of the parser stays within 0..len(tokens); a step leaves
\* it as it is or moves it forward by one, and moves it only while it points
\* at a token; the tokens are never changed; and a chain without a closing
\* Eof is parsed to its end, the end of the sequence taken as end of input.
C16_CursorForwardInBounds ==
  /\ [][/\ parser'.cur_idx \in {parser.cur_idx, parser.cur_idx + 1}
        /\ parser'.cur_idx = parser.cur_idx + 1 => parser.cur_idx < Len(parser.tokens)
        /\ parser'.tokens = parser.tokens]_vars
  /\ [](0 <= parser.cur_idx /\ parser.cur_idx <= Len(parser.tokens))
  /\ []((/\ ParseDone
         /\ IsPlainChain(parser.tokens)
         /\ Body(parser.tokens) = parser.tokens)
          => /\ parse_ret.status = "returned"
             /\ parser.cur_idx = Len(parser.tokens))

\* 1 / 2 without Eof, as the test of the parser builds it, parsed to its end
C16_Witness ==
  /\ parse_ret.status = "returned"
  /\ parser.tokens = <<Operand(1), Tok("Divide"), Operand(2)>>
  /\ parser.cur_idx = 3
  /\ parse_ret.value = Binary(Lit(1), "Divide", Lit(2))

\* index of the first token from index i on that is no prefix operator
PrefixEnd(tokens, i) ==
  LET stop == {j \in i..Len(tokens) : tokens[j].kind \notin {"Minus", "Not"}}
  IN  IF stop = {} THEN Len(tokens) + 1 ELSE CHOOSE j \in stop : \A k \in stop : j <= k

RECURSIVE Prefixed(_, _, _, _)
\* the operators of tokens from index i to index j - 1 applied to e, the
\* first one outermost
Prefixed(tokens, i, j, e) ==
  IF i >= j THEN e ELSE Unary(tokens[i].kind, Prefixed(tokens, i + 1, j, e))

\* C17: n prefix operators before a primary parse to n nested Unary nodes, the
\* first operator outermost; prefix operators bind tighter than the binary
\* operator of any layer, so that the operands of a binary operator are the
\* prefixed primaries to its left and to its right; and a '-' behind a
\* complete operand is the binary operator, a '-' where an operand is due the
\* prefix operator.
C17_UnaryNestsAndBindsTighter ==
  ParseDone =>
    LET b == Body(parser.tokens)
        k1 == PrefixEnd(b, 1)
        k2 == PrefixEnd(b, k1 + 2)
        left == Prefixed(b, 1, k1, Lit(1))
    IN  /\ (k1 = Len(b) /\ b[k1] = Operand(1)) =>
              parse_ret = [status |-> "returned", value |-> left]
        /\ (/\ k1 + 2 <= Len(b)
            /\ b[k1] = Operand(1)
            /\ b[k1 + 1].kind \in BinaryOps
            /\ k2 = Len(b)
            /\ b[k2] = Operand(2)) =>
              parse_ret =
                [status |-> "returned",
                 value |-> Binary(left, b[k1 + 1].kind, Prefixed(b, k1 + 2, k2, Lit(2)))]

\* 1 - - 2 parsed to Binary{1, -, Unary{-, 2}}
C17_Witness ==
  /\ parse_ret.status = "returned"
  /\ Body(parser.tokens) = <<Operand(1), Tok("Minus"), Tok("Minus"), Operand(2)>>
  /\ parse_ret.value = Binary(Lit(1), "Minus", Unary("Minus", Lit(2)))

---------------------------------------------------------------------------
(* Claims about termination, checked under SpecRun *)

\* the depth of a function in the grammar: a call of a deeper function descends
Level(fn) ==
  CASE fn = "expression" -> 1
    [] fn = "comparison" -> 2
    [] fn = "term" -> 3
    [] fn = "factor" -> 4
    [] fn = "unary" -> 5
    [] fn = "primary" -> 6

====
